---- MODULE Spec2Model ----
(***************************************************************************)
(* A model of ml_api.py: the command-line client that refreshes an OAuth   *)
(* token, resolves an order or pack identifier to a shipment identifier    *)
(* and downloads the shipping label.                                       *)
(*                                                                         *)
(* Python strings and byte strings are sequences (of one-character strings *)
(* and of byte values); JSON values are tagged records; a Python dict with *)
(* optional keys is a record whose missing keys hold the marker Absent.    *)
(* Paths follow the POSIX rules of os.path.                                *)
(***************************************************************************)
EXTENDS Integers, Sequences, FiniteSets, TLC

(***************************************************************************)
(* Bounds of the model.                                                    *)
(***************************************************************************)
MaxId == 2          \* order and pack ids of the records are 1 .. MaxId
MaxShipId == 2      \* shipment ids tried by the extractor are 0 .. MaxShipId
MaxPayloadLen == 5  \* label payloads have at most this many bytes

(***************************************************************************)
(* JSON values as json.loads returns them.                                 *)
(***************************************************************************)
Absent == [t |-> "absent"]
JNull == [t |-> "null"]
JInt(n) == [t |-> "int", v |-> n]
JStr(s) == [t |-> "str", v |-> s]
JMap(m) == [t |-> "map", v |-> m]
JList == [t |-> "list"]

\* dict.get(key): None when the key is missing
DictGet(m, k) == IF m[k].t = "absent" THEN JNull ELSE m[k]

\* Python truth value: None, 0, "" and {} are false; a JList stands for a
\* non-empty list
Truthy(v) ==
    CASE v.t = "null" -> FALSE
      [] v.t = "int" -> v.v # 0
      [] v.t = "str" -> v.v # <<>>
      [] v.t = "map" -> \E k \in DOMAIN v.v : v.v[k].t # "absent"
      [] OTHER -> TRUE

Digits == <<"0", "1", "2", "3", "4", "5", "6", "7", "8", "9">>

RECURSIVE IntToStr(_)
IntToStr(n) ==
    IF n < 10 THEN <<Digits[n + 1]>>
    ELSE IntToStr(n \div 10) \o <<Digits[(n % 10) + 1]>>

NoneStr == <<"N", "o", "n", "e">>

\* str(x) for the values an id field holds
PyStr(v) ==
    CASE v.t = "null" -> NoneStr
      [] v.t = "int" -> IntToStr(v.v)
      [] v.t = "str" -> v.v

(***************************************************************************)
(* String helpers.                                                         *)
(***************************************************************************)
EndsWith(s, suffix) ==
    /\ Len(s) >= Len(suffix)
    /\ SubSeq(s, Len(s) - Len(suffix) + 1, Len(s)) = suffix

StartsWith(s, prefix) ==
    /\ Len(s) >= Len(prefix)
    /\ SubSeq(s, 1, Len(prefix)) = prefix

LowerChar(c) ==
    CASE c = "Z" -> "z"
      [] c = "I" -> "i"
      [] c = "P" -> "p"
      [] c = "A" -> "a"
      [] OTHER -> c

\* str.lower()
Lower(s) == [i \in 1 .. Len(s) |-> LowerChar(s[i])]

\* os.path.basename: what follows the last separator
LastSlash(p) ==
    IF \E i \in 1 .. Len(p) : p[i] = "/"
    THEN CHOOSE i \in 1 .. Len(p) : p[i] = "/" /\ \A j \in (i + 1) .. Len(p) : p[j] # "/"
    ELSE 0

Basename(p) == SubSeq(p, LastSlash(p) + 1, Len(p))

\* Path.home() / "Downloads"
Downloads == <<"~", "/", "D", "o", "w", "n", "l", "o", "a", "d", "s">>

\* os.path.join(directory, name) for a name without a leading separator
PathJoin(dir, name) == dir \o <<"/">> \o name


(***************************************************************************)
(* The pure functions of ml_api.py.                                        *)
(***************************************************************************)
RequiredKeys == <<"ML_CLIENT_ID", "ML_CLIENT_SECRET", "ML_REFRESH_TOKEN">>

\* a variant that tests `k not in env` and so accepts an empty value
ensure_keys_not_in(env, keys) == SelectSeq(keys, LAMBDA k : env[k].t = "absent")

\* ensure_keys: the list `missing`, the keys k with `not env.get(k)`
ensure_keys(env, keys) == SelectSeq(keys, LAMBDA k : ~Truthy(DictGet(env, k)))

\* a variant that forgets pack_id
matches_identifier_id_only(order, identifier) ==
    PyStr(DictGet(order, "id")) = identifier

\* a variant that compares without str(): a number never equals the string
matches_identifier_no_str(order, identifier) ==
    \E k \in {"id", "pack_id"} :
        /\ DictGet(order, k).t = "str"
        /\ DictGet(order, k).v = identifier

\* matches_identifier, for an order that is a mapping
matches_identifier(order, identifier) ==
    \/ PyStr(DictGet(order, "id")) = identifier
    \/ PyStr(DictGet(order, "pack_id")) = identifier

\* `order.get(key) or {}` followed by `.get("id")`: the id, or the marker
\* AttributeError when the value is true and has no method get
EmptyMap == [id |-> Absent]

NestedId(order, key) ==
    LET v == DictGet(order, key)
        m == IF Truthy(v) THEN v ELSE JMap(EmptyMap)
    IN  IF m.t = "map" THEN DictGet(m.v, "id") ELSE [t |-> "AttributeError"]

\* a variant that tests `shipping_id is None` and so keeps a zero or empty id
extract_shipping_id_is_none(order) ==
    LET shipping_id == NestedId(order, "shipping")
    IN  IF shipping_id.t = "AttributeError"
        THEN [ok |-> FALSE, error |-> "AttributeError"]
        ELSE IF shipping_id.t # "null"
        THEN [ok |-> TRUE, value |-> shipping_id]
        ELSE LET shipment_id == NestedId(order, "shipment")
             IN  IF shipment_id.t = "AttributeError"
                 THEN [ok |-> FALSE, error |-> "AttributeError"]
                 ELSE IF shipment_id.t # "null"
                 THEN [ok |-> TRUE, value |-> shipment_id]
                 ELSE [ok |-> FALSE, error |-> "RuntimeError"]

\* extract_shipping_id: the value returned, or the exception raised
extract_shipping_id(order) ==
    LET shipping_id == NestedId(order, "shipping")
    IN  IF shipping_id.t = "AttributeError"
        THEN [ok |-> FALSE, error |-> "AttributeError"]
        ELSE IF Truthy(shipping_id)
        THEN [ok |-> TRUE, value |-> shipping_id]
        ELSE LET shipment_id == NestedId(order, "shipment")
             IN  IF shipment_id.t = "AttributeError"
                 THEN [ok |-> FALSE, error |-> "AttributeError"]
                 ELSE IF Truthy(shipment_id)
                 THEN [ok |-> TRUE, value |-> shipment_id]
                 ELSE [ok |-> FALSE, error |-> "RuntimeError"]

\* b"PK\x03\x04"
ZipMagic == <<80, 75, 3, 4>>

is_zip(data) == StartsWith(data, ZipMagic)

DotZip == <<".", "z", "i", "p">>

\* a variant without lower(): the suffix test is case-sensitive
SavePathCaseSensitive(label, save_label) ==
    IF is_zip(label) /\ ~EndsWith(save_label, DotZip)
    THEN save_label \o DotZip
    ELSE save_label

\* main, lines 236-239: the path the label is saved under
SavePath(label, save_label) ==
    IF is_zip(label) /\ ~EndsWith(Lower(save_label), DotZip)
    THEN save_label \o DotZip
    ELSE save_label

\* main, lines 240-244
TargetPath(save_path, save_to_downloads) ==
    IF save_to_downloads THEN PathJoin(Downloads, Basename(save_path)) ELSE save_path

\* bytes.decode("utf-8") succeeds: the bytes of the model are ASCII bytes and
\* 0xFF, which no UTF-8 sequence contains
Utf8Decodable(data) == \A i \in 1 .. Len(data) : data[i] < 128

\* f"debug_{name}_response_{order_id}.json"
DebugFilename(name, order_id) == <<"debug", name, order_id>>

OrderUrl(order_id) == <<"orders", order_id>>
PackUrl(pack_id) == <<"packs", pack_id>>

(***************************************************************************)
(* Inputs: the command line, the .env file and the platform's responses.   *)
(***************************************************************************)
EnvValues == {Absent, JStr(<<>>), JStr(<<"x">>)}

\* the mappings load_env returns; ML_SELLER_ID is read and never used
Envs ==
    [ML_CLIENT_ID : EnvValues, ML_CLIENT_SECRET : EnvValues,
     ML_REFRESH_TOKEN : EnvValues, ML_SELLER_ID : {Absent}]

Identifiers == {<<"1">>, NoneStr}

MainPaths == {<<"a">>, <<"d", "/", "a", ".", "Z", "I", "P">>}

ArgSets ==
    [order_id : {JNull} \cup {JStr(i) : i \in Identifiers},
     save_label : {JNull} \cup {JStr(p) : p \in MainPaths},
     response_type : {"zpl2", "pdf"},
     refresh_only : BOOLEAN,
     save_to_downloads : BOOLEAN,
     debug_search : BOOLEAN]

\* how a request fails: urllib's HTTPError (re-raised as RuntimeError by
\* http_request) or a transport error
Failures == {"http", "network"}

TokenInfos ==
    [access_token : {Absent, JStr(<<"T">>)}, expires_in : {Absent, JInt(21600)}]

IdValues == {Absent, JStr(<<"1">>)} \cup {JInt(n) : n \in 1 .. MaxId}
PackIdValues == {Absent, JNull, JInt(1)}

\* the JSON documents the order and pack endpoints answer with
MainRecords ==
    [id : IdValues, pack_id : PackIdValues,
     shipping : {Absent, JMap([id |-> JInt(7)])},
     shipment : {Absent, JMap([id |-> JInt(8)])}]

LookupPayloads == {JMap(r) : r \in MainRecords} \cup {JList}

MainLabels == {ZipMagic, <<65>>, <<255>>}

(***************************************************************************)
(* State.                                                                  *)
(***************************************************************************)
VARIABLES
    pc,            \* position in main / find_order_any
    args,          \* the parsed command line
    env_file,      \* the .env file: whether it exists, and what it parses to
    env,           \* main's env
    access_token,  \* main's access_token
    http_log,      \* every HTTP request sent so far
    attempts,      \* find_order_any's attempts
    payload,       \* find_order_any's local order / pack
    order,         \* main's order
    source,        \* main's source
    shipping_id,   \* main's shipping_id
    label_bytes,   \* main's label_bytes
    stdout,        \* what was printed to standard output
    writes,        \* every file written, in order
    calls,         \* the components invoked, in order
    error,         \* the exception that ended the run
    exit_code      \* the process exit status

vars ==
    <<pc, args, env_file, env, access_token, http_log, attempts, payload, order,
      source, shipping_id, label_bytes, stdout, writes, calls, error, exit_code>>

NoEnv == [k \in {"ML_CLIENT_ID", "ML_CLIENT_SECRET", "ML_REFRESH_TOKEN", "ML_SELLER_ID"} |-> Absent]

Blank ==
    /\ env = NoEnv
    /\ access_token = JNull
    /\ http_log = <<>>
    /\ attempts = <<>>
    /\ payload = JNull
    /\ order = JNull
    /\ source = "none"
    /\ shipping_id = JNull
    /\ label_bytes = <<>>
    /\ stdout = <<>>
    /\ writes = <<>>
    /\ calls = <<>>
    /\ error = <<>>
    /\ exit_code = -1

\* main after parse_args
Init ==
    /\ pc = "load_env"
    /\ args \in ArgSets
    /\ env_file \in ([exists : {TRUE}, env : Envs] \cup {[exists |-> FALSE, env |-> NoEnv]})
    /\ Blank

\* an uncaught exception, SystemExit or parser.error ends the run
Abort(err, code) ==
    /\ pc' = "aborted"
    /\ error' = err
    /\ exit_code' = code

(***************************************************************************)
(* main, lines 203-219.                                                    *)
(***************************************************************************)
LoadEnv ==
    /\ pc = "load_env"
    /\ calls' = Append(calls, "config_loader")
    /\ IF env_file.exists
       THEN /\ env' = env_file.env
            /\ pc' = "ensure_keys"
            /\ UNCHANGED <<error, exit_code>>
       ELSE /\ Abort(<<"FileNotFoundError">>, 1)
            /\ UNCHANGED env
    /\ UNCHANGED <<args, env_file, access_token, http_log, attempts, payload, order,
                   source, shipping_id, label_bytes, stdout, writes>>

EnsureKeys ==
    /\ pc = "ensure_keys"
    /\ LET missing == ensure_keys(env, RequiredKeys)
       IN  IF missing # <<>>
           THEN Abort(<<"SystemExit", missing>>, 1)
           ELSE /\ pc' = "refresh"
                /\ UNCHANGED <<error, exit_code>>
    /\ UNCHANGED <<args, env_file, env, access_token, http_log, attempts, payload,
                   order, source, shipping_id, label_bytes, stdout, writes, calls>>

TokenRequest ==
    <<"POST", "token", env["ML_CLIENT_ID"].v, env["ML_CLIENT_SECRET"].v,
      env["ML_REFRESH_TOKEN"].v>>

\* refresh_access_token fails: the request fails, or the answer has no
\* access_token
RefreshFail ==
    /\ pc = "refresh"
    /\ calls' = Append(calls, "token_refresher")
    /\ http_log' = Append(http_log, TokenRequest)
    /\ \/ \E f \in Failures : Abort(<<"RequestError", f>>, 1)
       \/ \E info \in TokenInfos :
             /\ info.access_token.t = "absent"
             /\ Abort(<<"RuntimeError", "unexpected_token_response", info>>, 1)
    /\ UNCHANGED <<args, env_file, env, access_token, attempts, payload, order,
                   source, shipping_id, label_bytes, stdout, writes>>

\* refresh_access_token returns, and main prints the token line
RefreshOk ==
    /\ pc = "refresh"
    /\ calls' = Append(calls, "token_refresher")
    /\ http_log' = Append(http_log, TokenRequest)
    /\ \E info \in TokenInfos :
          /\ info.access_token.t # "absent"
          /\ access_token' = info.access_token
          /\ stdout' = Append(stdout,
                 IF Truthy(DictGet(info, "expires_in"))
                 THEN <<"token_expires", info.expires_in>>
                 ELSE <<"token_ok">>)
    /\ pc' = "after_token"
    /\ UNCHANGED <<args, env_file, env, attempts, payload, order, source,
                   shipping_id, label_bytes, writes, error, exit_code>>

\* a variant that ignores --refresh-only and goes on to the lookup
RefreshOnlyIgnored ==
    /\ pc = "after_token"
    /\ args.refresh_only
    /\ Truthy(args.order_id)
    /\ calls' = Append(calls, "order_resolver")
    /\ attempts' = <<>>
    /\ pc' = "get_order"
    /\ UNCHANGED <<args, env_file, env, access_token, http_log, payload, order,
                   source, shipping_id, label_bytes, stdout, writes, error,
                   exit_code>>

RefreshOnly ==
    /\ pc = "after_token"
    /\ args.refresh_only
    /\ pc' = "done"
    /\ exit_code' = 0
    /\ UNCHANGED <<args, env_file, env, access_token, http_log, attempts, payload,
                   order, source, shipping_id, label_bytes, stdout, writes, calls,
                   error>>

\* parser.error: --order-id is missing
ParserError ==
    /\ pc = "after_token"
    /\ ~args.refresh_only
    /\ ~Truthy(args.order_id)
    /\ Abort(<<"parser.error">>, 2)
    /\ UNCHANGED <<args, env_file, env, access_token, http_log, attempts, payload,
                   order, source, shipping_id, label_bytes, stdout, writes, calls>>

(***************************************************************************)
(* find_order_any, lines 122-152, entered from main, line 221.             *)
(***************************************************************************)
CallFindOrderAny ==
    /\ pc = "after_token"
    /\ ~args.refresh_only
    /\ Truthy(args.order_id)
    /\ calls' = Append(calls, "order_resolver")
    /\ attempts' = <<>>
    /\ pc' = "get_order"
    /\ UNCHANGED <<args, env_file, env, access_token, http_log, payload, order,
                   source, shipping_id, label_bytes, stdout, writes, error,
                   exit_code>>

\* a variant without the except clause: a failed request leaves find_order_any
GetOrderUncaught ==
    /\ pc = "get_order"
    /\ http_log' = Append(http_log, <<"GET", OrderUrl(args.order_id.v)>>)
    /\ \/ \E p \in LookupPayloads :
             /\ payload' = p
             /\ attempts' = Append(attempts,
                    <<"order", OrderUrl(args.order_id.v), "payload", p>>)
             /\ pc' = "match_order"
             /\ UNCHANGED <<error, exit_code>>
       \/ \E f \in Failures :
             /\ Abort(<<"RequestError", f>>, 1)
             /\ UNCHANGED <<payload, attempts>>
    /\ UNCHANGED <<args, env_file, env, access_token, order, source, shipping_id,
                   label_bytes, stdout, writes, calls>>

\* lines 133-134 and 137-138: get_order returns a parsed document, which is
\* appended, or raises, and the except clause appends the error
GetOrder ==
    /\ pc = "get_order"
    /\ http_log' = Append(http_log, <<"GET", OrderUrl(args.order_id.v)>>)
    /\ \/ \E p \in LookupPayloads :
             /\ payload' = p
             /\ attempts' = Append(attempts,
                    <<"order", OrderUrl(args.order_id.v), "payload", p>>)
             /\ pc' = "match_order"
       \/ \E f \in Failures :
             /\ attempts' = Append(attempts,
                    <<"order", OrderUrl(args.order_id.v), "error", f>>)
             /\ pc' = "get_pack"
             /\ UNCHANGED payload
    /\ UNCHANGED <<args, env_file, env, access_token, order, source, shipping_id,
                   label_bytes, stdout, writes, calls, error, exit_code>>

\* lines 135-138: matches_identifier inside the try block; on a document
\* that is no mapping order.get raises AttributeError, which the same except
\* clause records
MatchOrder ==
    /\ pc = "match_order"
    /\ IF payload.t # "map"
       THEN /\ attempts' = Append(attempts,
                   <<"order", OrderUrl(args.order_id.v), "error", "AttributeError">>)
            /\ pc' = "get_pack"
            /\ UNCHANGED <<order, source>>
       ELSE IF matches_identifier(payload.v, args.order_id.v)
       THEN /\ order' = payload
            /\ source' = "order"
            /\ pc' = "extract"
            /\ UNCHANGED attempts
       ELSE /\ pc' = "get_pack"
            /\ UNCHANGED <<attempts, order, source>>
    /\ UNCHANGED <<args, env_file, env, access_token, http_log, payload,
                   shipping_id, label_bytes, stdout, writes, calls, error,
                   exit_code>>

\* lines 142-143 and 146-147
GetPack ==
    /\ pc = "get_pack"
    /\ http_log' = Append(http_log, <<"GET", PackUrl(args.order_id.v)>>)
    /\ \/ \E p \in LookupPayloads :
             /\ payload' = p
             /\ attempts' = Append(attempts,
                    <<"pack", PackUrl(args.order_id.v), "payload", p>>)
             /\ pc' = "match_pack"
       \/ \E f \in Failures :
             /\ attempts' = Append(attempts,
                    <<"pack", PackUrl(args.order_id.v), "error", f>>)
             /\ pc' = "not_found"
             /\ UNCHANGED payload
    /\ UNCHANGED <<args, env_file, env, access_token, order, source, shipping_id,
                   label_bytes, stdout, writes, calls, error, exit_code>>

\* lines 144-147
MatchPack ==
    /\ pc = "match_pack"
    /\ IF payload.t # "map"
       THEN /\ attempts' = Append(attempts,
                   <<"pack", PackUrl(args.order_id.v), "error", "AttributeError">>)
            /\ pc' = "not_found"
            /\ UNCHANGED <<order, source>>
       ELSE IF matches_identifier(payload.v, args.order_id.v)
       THEN /\ order' = payload
            /\ source' = "pack"
            /\ pc' = "extract"
            /\ UNCHANGED attempts
       ELSE /\ pc' = "not_found"
            /\ UNCHANGED <<attempts, order, source>>
    /\ UNCHANGED <<args, env_file, env, access_token, http_log, payload,
                   shipping_id, label_bytes, stdout, writes, calls, error,
                   exit_code>>

\* lines 149-152: the RuntimeError naming the identifier leaves main
RaiseNotFound ==
    /\ pc = "not_found"
    /\ Abort(<<"RuntimeError", "not_found", args.order_id.v>>, 1)
    /\ UNCHANGED <<args, env_file, env, access_token, http_log, attempts, payload,
                   order, source, shipping_id, label_bytes, stdout, writes, calls>>

(***************************************************************************)
(* main, lines 222-255.                                                    *)
(***************************************************************************)
\* lines 222-223
ExtractShippingId ==
    /\ pc = "extract"
    /\ calls' = Append(calls, "shipment_extractor")
    /\ LET r == extract_shipping_id(order.v)
       IN  IF r.ok
           THEN /\ shipping_id' = r.value
                /\ stdout' = Append(stdout,
                       <<"order_line", args.order_id.v, r.value, source>>)
                /\ pc' = "debug"
                /\ UNCHANGED <<error, exit_code>>
           ELSE /\ Abort(<<r.error, "extract_shipping_id">>, 1)
                /\ UNCHANGED <<shipping_id, stdout>>
    /\ UNCHANGED <<args, env_file, env, access_token, http_log, attempts, payload,
                   order, source, label_bytes, writes>>

\* lines 225-231: one file per entry of attempts, named by the entry's source
DebugDump ==
    /\ pc = "debug"
    /\ IF args.debug_search
       THEN /\ writes' = writes \o
                   [i \in 1 .. Len(attempts) |->
                       <<"debug", DebugFilename(attempts[i][1], args.order_id.v),
                         attempts[i]>>]
            /\ stdout' = stdout \o
                   [i \in 1 .. Len(attempts) |->
                       <<"debug_saved", DebugFilename(attempts[i][1], args.order_id.v)>>]
       ELSE UNCHANGED <<writes, stdout>>
    /\ pc' = "download"
    /\ UNCHANGED <<args, env_file, env, access_token, http_log, attempts, payload,
                   order, source, shipping_id, label_bytes, calls, error, exit_code>>

LabelRequest == <<"GET", "shipment_labels", shipping_id, args.response_type>>

\* line 233: download_label returns the bytes of the answer
DownloadLabel ==
    /\ pc = "download"
    /\ calls' = Append(calls, "label_downloader")
    /\ http_log' = Append(http_log, LabelRequest)
    /\ \E data \in MainLabels : label_bytes' = data
    /\ pc' = "sink"
    /\ UNCHANGED <<args, env_file, env, access_token, attempts, payload, order,
                   source, shipping_id, stdout, writes, error, exit_code>>

\* line 233: download_label raises
DownloadFail ==
    /\ pc = "download"
    /\ calls' = Append(calls, "label_downloader")
    /\ http_log' = Append(http_log, LabelRequest)
    /\ \E f \in Failures : Abort(<<"RequestError", f>>, 1)
    /\ UNCHANGED <<args, env_file, env, access_token, attempts, payload, order,
                   source, shipping_id, label_bytes, stdout, writes>>

\* the line printed when the path is changed, lines 237-239
ZipNotice(save_path) ==
    IF save_path # args.save_label.v THEN <<<<"zip_notice", save_path>>>> ELSE <<>>

\* lines 235-247: the label is written to the file
SinkSave ==
    /\ pc = "sink"
    /\ Truthy(args.save_label)
    /\ LET save_path == SavePath(label_bytes, args.save_label.v)
           target_path == TargetPath(save_path, args.save_to_downloads)
       IN  /\ target_path[Len(target_path)] # "/"
           /\ writes' = Append(writes, <<"label", target_path, label_bytes>>)
           /\ stdout' = stdout \o ZipNotice(save_path)
                               \o <<<<"label_saved", target_path>>>>
    /\ calls' = Append(calls, "output_sink")
    /\ pc' = "done"
    /\ exit_code' = 0
    /\ UNCHANGED <<args, env_file, env, access_token, http_log, attempts, payload,
                   order, source, shipping_id, label_bytes, error>>

\* a variant in which the failure comes after the bytes were written
SinkSaveFailPartial ==
    /\ pc = "sink"
    /\ Truthy(args.save_label)
    /\ LET save_path == SavePath(label_bytes, args.save_label.v)
           target_path == TargetPath(save_path, args.save_to_downloads)
       IN  /\ writes' = Append(writes, <<"label", target_path, label_bytes>>)
           /\ stdout' = stdout \o ZipNotice(save_path)
    /\ calls' = Append(calls, "output_sink")
    /\ Abort(<<"OSError">>, 1)
    /\ UNCHANGED <<args, env_file, env, access_token, http_log, attempts, payload,
                   order, source, shipping_id, label_bytes>>

\* line 245: open raises OSError (always, when the path names a directory)
SinkSaveFail ==
    /\ pc = "sink"
    /\ Truthy(args.save_label)
    /\ stdout' = stdout \o ZipNotice(SavePath(label_bytes, args.save_label.v))
    /\ calls' = Append(calls, "output_sink")
    /\ Abort(<<"OSError">>, 1)
    /\ UNCHANGED <<args, env_file, env, access_token, http_log, attempts, payload,
                   order, source, shipping_id, label_bytes, writes>>

\* lines 248-253: the label goes to standard output, as text when it decodes
SinkPrint ==
    /\ pc = "sink"
    /\ ~Truthy(args.save_label)
    /\ stdout' = Append(stdout,
           IF Utf8Decodable(label_bytes)
           THEN <<"label_text", label_bytes>>
           ELSE <<"label_raw", label_bytes>>)
    /\ calls' = Append(calls, "output_sink")
    /\ pc' = "done"
    /\ exit_code' = 0
    /\ UNCHANGED <<args, env_file, env, access_token, http_log, attempts, payload,
                   order, source, shipping_id, label_bytes, writes, error>>

Next ==
    \/ LoadEnv
    \/ EnsureKeys
    \/ RefreshFail
    \/ RefreshOk
    \/ RefreshOnly
    \/ ParserError
    \/ CallFindOrderAny
    \/ GetOrder
    \/ MatchOrder
    \/ GetPack
    \/ MatchPack
    \/ RaiseNotFound
    \/ ExtractShippingId
    \/ DebugDump
    \/ DownloadLabel
    \/ DownloadFail
    \/ SinkSave
    \/ SinkSaveFail
    \/ SinkPrint

Spec == Init /\ [][Next]_vars

(***************************************************************************)
(* extract_shipping_id on its own: main at line 222, with the matched      *)
(* record drawn from every shape of the shipping and shipment fields.      *)
(***************************************************************************)
ShipIdValues ==
    {Absent, JNull, JStr(<<>>), JStr(<<"7">>)} \cup {JInt(n) : n \in 0 .. MaxShipId}

\* missing, null, a mapping, a false value that is no mapping, a true value
\* that is no mapping
ShipValues ==
    {Absent, JNull, JInt(0), JStr(<<"x">>)} \cup {JMap([id |-> i]) : i \in ShipIdValues}

ExtractRecords ==
    [id : {JInt(1)}, pack_id : {Absent}, shipping : ShipValues, shipment : ShipValues]

GoodEnv ==
    [ML_CLIENT_ID |-> JStr(<<"x">>), ML_CLIENT_SECRET |-> JStr(<<"x">>),
     ML_REFRESH_TOKEN |-> JStr(<<"x">>), ML_SELLER_ID |-> Absent]

\* the run so far: the token was refreshed and the order endpoint answered
\* with the matching record
AfterOrderMatch(rec) ==
    /\ env_file = [exists |-> TRUE, env |-> GoodEnv]
    /\ env = GoodEnv
    /\ access_token = JStr(<<"T">>)
    /\ attempts = <<<<"order", OrderUrl(<<"1">>), "payload", JMap(rec)>>>>
    /\ payload = JMap(rec)
    /\ order = JMap(rec)
    /\ source = "order"
    /\ writes = <<>>
    /\ error = <<>>
    /\ exit_code = -1

InitExtract ==
    /\ pc = "extract"
    /\ args \in [order_id : {JStr(<<"1">>)}, save_label : {JNull},
                 response_type : {"zpl2"}, refresh_only : {FALSE},
                 save_to_downloads : {FALSE}, debug_search : {FALSE}]
    /\ \E rec \in ExtractRecords : AfterOrderMatch(rec)
    /\ http_log = <<<<"POST", "token", <<"x">>, <<"x">>, <<"x">>>>,
                    <<"GET", OrderUrl(<<"1">>)>>>>
    /\ shipping_id = JNull
    /\ label_bytes = <<>>
    /\ stdout = <<<<"token_ok">>>>
    /\ calls = <<"config_loader", "token_refresher", "order_resolver">>

NextExtract == ExtractShippingId

SpecExtract == InitExtract /\ [][NextExtract]_vars

(***************************************************************************)
(* The output sink on its own: main at line 235, with the label and the    *)
(* save path drawn from bounded sets.                                      *)
(***************************************************************************)
\* "P", "K", 0x03, 0x04 and a byte that is not UTF-8
ByteAlphabet == {80, 75, 3, 4, 255}

RECURSIVE SeqsUpTo(_, _)
SeqsUpTo(S, n) ==
    IF n = 0 THEN {<<>>}
    ELSE LET shorter == SeqsUpTo(S, n - 1)
         IN  shorter \cup {Append(q, x) : q \in shorter, x \in S}

SinkLabels == SeqsUpTo(ByteAlphabet, MaxPayloadLen)

SinkPaths ==
    { <<>>,
      <<"a">>,
      <<"a", ".", "z", "i", "p">>,
      <<"a", ".", "Z", "I", "P">>,
      <<"a", ".", "z", "I", "p">>,
      <<"a", ".", "z", "i">>,
      <<"z", "i", "p">>,
      <<".", "z", "i", "p">>,
      <<"d", "/", "a">>,
      <<"d", "/", "a", ".", "z", "i", "p">>,
      <<"d", ".", "z", "i", "p", "/", "a">>,
      <<"d", "/">> }

SinkRecord ==
    [id |-> JInt(1), pack_id |-> Absent, shipping |-> JMap([id |-> JInt(7)]),
     shipment |-> Absent]

InitSink ==
    /\ pc = "sink"
    /\ args \in [order_id : {JStr(<<"1">>)},
                 save_label : {JNull} \cup {JStr(p) : p \in SinkPaths},
                 response_type : {"zpl2"}, refresh_only : {FALSE},
                 save_to_downloads : BOOLEAN, debug_search : {FALSE}]
    /\ AfterOrderMatch(SinkRecord)
    /\ http_log = <<<<"POST", "token", <<"x">>, <<"x">>, <<"x">>>>,
                    <<"GET", OrderUrl(<<"1">>)>>,
                    <<"GET", "shipment_labels", JInt(7), "zpl2">>>>
    /\ shipping_id = JInt(7)
    /\ label_bytes \in SinkLabels
    /\ stdout = <<<<"token_ok">>, <<"order_line", <<"1">>, JInt(7), "order">>>>
    /\ calls = <<"config_loader", "token_refresher", "order_resolver",
                 "shipment_extractor", "label_downloader">>

NextSink ==
    \/ SinkSave
    \/ SinkSaveFail
    \/ SinkPrint

SpecSink == InitSink /\ [][NextSink]_vars

(***************************************************************************)
(* Vocabulary of the properties.  These definitions read the state and the *)
(* recorded inputs only; none of them uses the functions modelled above.   *)
(***************************************************************************)
Pipeline ==
    <<"config_loader", "token_refresher", "order_resolver", "shipment_extractor",
      "label_downloader", "output_sink">>

IsPrefix(s, t) == Len(s) <= Len(t) /\ s = SubSeq(t, 1, Len(s))

Called(c) == \E i \in 1 .. Len(calls) : calls[i] = c

Requested(kind) ==
    \E i \in 1 .. Len(http_log) :
        IF http_log[i][1] = "POST" THEN kind = "token"
        ELSE IF http_log[i][2] = "shipment_labels" THEN kind = "label"
        ELSE http_log[i][2][1] = kind

\* the identifier find_order_any was called with
Ident == args.order_id.v

\* the field of a mapping, read as a string the way str() prints it (a
\* missing or null field prints as None)
FieldText(doc, k) ==
    IF doc.v[k].t \in {"absent", "null"} THEN NoneStr
    ELSE IF doc.v[k].t = "int" THEN IntToStr(doc.v[k].v)
    ELSE doc.v[k].v

\* the document is a mapping whose id or pack_id equals the identifier
DocMatches(doc) ==
    /\ doc.t = "map"
    /\ \/ FieldText(doc, "id") = Ident
       \/ FieldText(doc, "pack_id") = Ident

\* the documents an endpoint returned in this call
Answers(src) ==
    {attempts[i][4] : i \in {j \in 1 .. Len(attempts) :
                                attempts[j][1] = src /\ attempts[j][3] = "payload"}}

\* the request to an endpoint failed
RequestFailed(src) ==
    \E i \in 1 .. Len(attempts) :
        /\ attempts[i][1] = src
        /\ attempts[i][3] = "error"
        /\ attempts[i][4] \in Failures

OrderMatched == \E doc \in Answers("order") : DocMatches(doc)
PackMatched == \E doc \in Answers("pack") : DocMatches(doc)

InResolver == pc \in {"get_order", "match_order", "get_pack", "match_pack", "not_found"}

\* the order attempt, check included, is over
OrderAttemptOver == Called("order_resolver") /\ pc \notin {"get_order", "match_order"}

\* find_order_any has returned or raised
ResolverOver == Called("order_resolver") /\ ~InResolver

Returned(tag) == ResolverOver /\ source = tag

NotFoundRaised ==
    /\ Called("order_resolver")
    /\ pc = "aborted"
    /\ error = <<"RuntimeError", "not_found", Ident>>

(***************************************************************************)
(* C1.  When the order request succeeds with a record whose id or pack_id, *)
(* compared as strings, equals the identifier, find_order_any returns that *)
(* record tagged "order" and never requests the pack endpoint; a record    *)
(* tagged "pack" is returned only when the order attempt did not match.    *)
(***************************************************************************)
C1_OrderMatchReturnsOrder ==
    /\ (OrderAttemptOver /\ OrderMatched) =>
          /\ source = "order"
          /\ order \in Answers("order")
          /\ DocMatches(order)
          /\ ~Requested("packs")
          /\ Len(attempts) = 1
    /\ Returned("pack") => ~OrderMatched /\ PackMatched
    /\ Returned("order") => OrderMatched

\* the order record matches through its pack_id only and is returned
C1_Witness ==
    /\ Returned("order")
    /\ FieldText(order, "id") # Ident
    /\ FieldText(order, "pack_id") = Ident
    /\ Ident # NoneStr

(***************************************************************************)
(* C2.  A failed order request is recorded, not raised: the pack endpoint  *)
(* is requested next, and a matching pack record is returned tagged        *)
(* "pack".  The same fallback follows an order record that does not match. *)
(***************************************************************************)
C2_OrderFailureFallsBack ==
    /\ (OrderAttemptOver /\ ~OrderMatched) =>
          /\ pc = "get_pack" \/ Requested("packs")
          /\ Len(attempts) >= 1
          /\ attempts[1][1] = "order"
          /\ RequestFailed("order") => attempts[1][3] = "error"
    /\ (ResolverOver /\ ~OrderMatched /\ PackMatched) =>
          /\ source = "pack"
          /\ order \in Answers("pack")
          /\ DocMatches(order)
          /\ ~NotFoundRaised

\* the order request failed and the pack record was returned
C2_Witness ==
    /\ Returned("pack")
    /\ RequestFailed("order")
    /\ Ident # NoneStr

KeyNames == {"ML_CLIENT_ID", "ML_CLIENT_SECRET", "ML_REFRESH_TOKEN"}

\* the required keys the file leaves out or leaves empty
Unset == {k \in KeyNames : env_file.env[k].t = "absent" \/ env_file.env[k] = JStr(<<>>)}

Listed(keys) == {keys[i] : i \in 1 .. Len(keys)}

C4_KeysBeforeTokenRequest ==
    /\ (\/ Requested("token")
        \/ Called("token_refresher")
        \/ pc = "refresh") => (env_file.exists /\ Unset = {})
    /\ (env_file.exists /\ Unset # {} /\ pc \notin {"load_env", "ensure_keys"}) =>
          /\ pc = "aborted"
          /\ error[1] = "SystemExit"
          /\ Listed(error[2]) = Unset
          /\ Len(error[2]) = Cardinality(Unset)
          /\ http_log = <<>>
    /\ ~env_file.exists => http_log = <<>>

\* one key is missing and another is empty, and the run has ended naming both
C4_Witness ==
    /\ pc = "aborted"
    /\ env_file.exists
    /\ env_file.env["ML_CLIENT_ID"].t = "absent"
    /\ env_file.env["ML_REFRESH_TOKEN"] = JStr(<<>>)
    /\ Cardinality(Unset) = 2
    /\ http_log = <<>>

(***************************************************************************)
(* C5.  As stated: a run either completes the pipeline and produces a      *)
(* label, or aborts with nothing printed to standard output and no file    *)
(* written.                                                                *)
(***************************************************************************)
LabelPrints ==
    {i \in 1 .. Len(stdout) : stdout[i][1] \in {"label_text", "label_raw"}}

LabelFiles == {i \in 1 .. Len(writes) : writes[i][1] = "label"}

LabelProduced == LabelPrints # {} \/ LabelFiles # {}

C5_NoPartialSuccess ==
    /\ pc = "done" => (calls = Pipeline /\ LabelProduced)
    /\ pc = "aborted" => (stdout = <<>> /\ writes = <<>>)

(***************************************************************************)
(* C5, amended.  The label is produced only by the output sink, as the     *)
(* last step of a run in which every earlier component succeeded: it is    *)
(* printed or written exactly once, with the downloaded bytes.  A run that *)
(* aborts has produced no label, though status lines and debug files may   *)
(* already be out; a run that ends normally without a label is a           *)
(* refresh-only run.                                                       *)
(***************************************************************************)
C5_LabelOnlyAtTheEnd ==
    /\ LabelProduced =>
          /\ pc = "done"
          /\ calls = Pipeline
          /\ Cardinality(LabelPrints) + Cardinality(LabelFiles) = 1
          /\ \A i \in LabelPrints : stdout[i][2] = label_bytes /\ i = Len(stdout)
          /\ \A i \in LabelFiles : writes[i][3] = label_bytes /\ i = Len(writes)
    /\ pc = "aborted" => ~LabelProduced
    /\ pc = "done" => (LabelProduced \/ args.refresh_only)

\* the download failed after the status lines were printed and the debug
\* files written
C5_Witness ==
    /\ pc = "aborted"
    /\ error[1] = "RequestError"
    /\ Called("label_downloader")
    /\ stdout # <<>>
    /\ writes # <<>>
    /\ ~LabelProduced

(***************************************************************************)
(* C6.  As stated: in every run that ends normally or with the missing     *)
(* --order-id error, each of the six components was called exactly once,   *)
(* in the fixed order; refresh-only runs included.                         *)
(***************************************************************************)
C6_EveryComponentOnce ==
    (pc = "done" \/ (pc = "aborted" /\ error = <<"parser.error">>)) => calls = Pipeline

(***************************************************************************)
(* C6, amended.  Each component is called at most once, in the fixed       *)
(* order, and none before its predecessor has completed: the calls made so *)
(* far are a prefix of the pipeline.  All six are called in a run that     *)
(* ends normally without --refresh-only; a refresh-only run and a run      *)
(* without --order-id stop after the token refresher.                      *)
(***************************************************************************)
C6_CallsArePrefix ==
    /\ IsPrefix(calls, Pipeline)
    /\ (pc = "done" /\ ~args.refresh_only) => calls = Pipeline
    /\ (pc = "done" /\ args.refresh_only) => calls = SubSeq(Pipeline, 1, 2)
    /\ (pc = "aborted" /\ error = <<"parser.error">>) => calls = SubSeq(Pipeline, 1, 2)
    /\ InResolver => calls = SubSeq(Pipeline, 1, 3)

\* a refresh-only run has ended after two components
C6_Witness ==
    /\ pc = "done"
    /\ args.refresh_only
    /\ calls = <<"config_loader", "token_refresher">>
    /\ exit_code = 0

(***************************************************************************)
(* C7.  With --debug-search, every run in which the resolver was invoked   *)
(* leaves one file per lookup attempt, named by source and identifier and  *)
(* holding that attempt, none overwritten by another.                      *)
(***************************************************************************)
\* what the file holds when the run ends: the last thing written to it
FileHolds(name, content) ==
    /\ \E i \in 1 .. Len(writes) : writes[i][1] = "debug" /\ writes[i][2] = name
    /\ LET last == CHOOSE i \in 1 .. Len(writes) :
                       /\ writes[i][1] = "debug" /\ writes[i][2] = name
                       /\ \A j \in (i + 1) .. Len(writes) :
                             ~(writes[j][1] = "debug" /\ writes[j][2] = name)
       IN  writes[last][3] = content

C7_EveryAttemptPersisted ==
    (args.debug_search /\ Called("order_resolver") /\ pc \in {"done", "aborted"}) =>
        \A i \in 1 .. Len(attempts) :
            FileHolds(<<"debug", attempts[i][1], Ident>>, attempts[i])

(***************************************************************************)
(* C10.  At every point of find_order_any the attempts list holds exactly  *)
(* one record per endpoint requested so far, in request order, each with   *)
(* one of payload or error: at most two records, never two of one source.  *)
(***************************************************************************)
LookupRequests ==
    SelectSeq(http_log, LAMBDA r : r[1] = "GET" /\ r[2] # "shipment_labels")

C10_OneRecordPerRequest ==
    /\ Len(attempts) = Len(LookupRequests)
    /\ Len(attempts) <= 2
    /\ \A i \in 1 .. Len(attempts) :
          /\ attempts[i][2] = LookupRequests[i][2]
          /\ attempts[i][1] = (IF i = 1 THEN "order" ELSE "pack")
          /\ attempts[i][3] \in {"payload", "error"}

(***************************************************************************)
(* C8.  extract_shipping_id returns shipping.id when shipping is a mapping *)
(* whose id is present and neither empty nor zero; otherwise, shipping     *)
(* being missing, null or a mapping without such an id, it returns         *)
(* shipment.id when that is present and neither empty nor zero; otherwise, *)
(* shipment being missing, null or a mapping without such an id, it raises *)
(* the "no shipment id" error.                                             *)
(***************************************************************************)
\* a mapping whose id is present, not null, not zero and not empty
HasUsableId(x) ==
    /\ x.t = "map"
    /\ x.v.id.t \in {"int", "str"}
    /\ x.v.id.t = "int" => x.v.id.v # 0
    /\ x.v.id.t = "str" => Len(x.v.id.v) > 0

\* missing, null, or a mapping without a usable id
NoUsableId(x) == x.t \in {"absent", "null"} \/ (x.t = "map" /\ ~HasUsableId(x))

ExtractorOver == Called("shipment_extractor")

ExtractorReturned(v) == pc = "debug" /\ shipping_id = v

C8_ShippingThenShipment ==
    ExtractorOver =>
        LET shipping == order.v.shipping
            shipment == order.v.shipment
        IN  /\ HasUsableId(shipping) => ExtractorReturned(shipping.v.id)
            /\ (NoUsableId(shipping) /\ HasUsableId(shipment)) =>
                  ExtractorReturned(shipment.v.id)
            /\ (NoUsableId(shipping) /\ NoUsableId(shipment)) =>
                  /\ pc = "aborted"
                  /\ error = <<"RuntimeError", "extract_shipping_id">>
                  /\ shipping_id = JNull

\* shipping.id is present but zero, and shipment.id was returned
C8_Witness ==
    /\ ExtractorOver
    /\ order.v.shipping = JMap([id |-> JInt(0)])
    /\ HasUsableId(order.v.shipment)
    /\ ExtractorReturned(order.v.shipment.v.id)

(***************************************************************************)
(* C9.  As stated: with a save path, a payload that begins with PK\x03\x04 *)
(* and a path that does not end in ".zip" give a file named path + ".zip"; *)
(* otherwise the path is unchanged; the bytes written are the payload;     *)
(* --save-to-downloads replaces the directory only.                        *)
(***************************************************************************)
HasZipSignature(data) ==
    /\ Len(data) >= 4
    /\ data[1] = 80 /\ data[2] = 75 /\ data[3] = 3 /\ data[4] = 4

EndsInDotZip(path) ==
    /\ Len(path) >= 4
    /\ path[Len(path) - 3] = "." /\ path[Len(path) - 2] = "z"
    /\ path[Len(path) - 1] = "i" /\ path[Len(path)] = "p"

EndsInDotZipAnyCase(path) ==
    /\ Len(path) >= 4
    /\ path[Len(path) - 3] = "."
    /\ path[Len(path) - 2] \in {"z", "Z"}
    /\ path[Len(path) - 1] \in {"i", "I"}
    /\ path[Len(path)] \in {"p", "P"}

RECURSIVE FileName(_)
\* the last component of a path
FileName(path) ==
    IF path = <<>> \/ path[Len(path)] = "/" THEN <<>>
    ELSE Append(FileName(SubSeq(path, 1, Len(path) - 1)), path[Len(path)])

InDownloads(name) == Downloads \o <<"/">> \o name

SavePathGiven == args.save_label.t = "str"

SinkOver == Called("output_sink")

\* the one file the sink wrote is named `path` and holds the payload
LabelWrittenTo(path) ==
    /\ writes # <<>>
    /\ writes[Len(writes)] = <<"label", path, label_bytes>>
    /\ Cardinality(LabelFiles) = 1

C9_ZipSuffixRule ==
    (SinkOver /\ SavePathGiven /\ args.save_label.v # <<>> /\ pc = "done") =>
        LET given == args.save_label.v
            named == IF HasZipSignature(label_bytes) /\ ~EndsInDotZip(given)
                     THEN given \o DotZip
                     ELSE given
        IN  LabelWrittenTo(IF args.save_to_downloads
                           THEN InDownloads(FileName(named))
                           ELSE named)

(***************************************************************************)
(* C9, amended.  With a non-empty save path, whenever the sink writes the  *)
(* file: a payload that begins with PK\x03\x04 and a path that does not    *)
(* end in ".zip" in any letter case give path + ".zip"; otherwise the path *)
(* is unchanged; the bytes written are the payload; --save-to-downloads    *)
(* replaces the directory only.  An empty save path counts as none: the    *)
(* label is printed.                                                       *)
(***************************************************************************)
C9_ZipSuffixRuleAnyCase ==
    /\ (SinkOver /\ SavePathGiven /\ args.save_label.v # <<>> /\ pc = "done") =>
          LET given == args.save_label.v
              named == IF HasZipSignature(label_bytes) /\ ~EndsInDotZipAnyCase(given)
                       THEN given \o DotZip
                       ELSE given
          IN  LabelWrittenTo(IF args.save_to_downloads
                             THEN InDownloads(FileName(named))
                             ELSE named)
    /\ (SinkOver /\ SavePathGiven /\ args.save_label.v = <<>>) =>
          (writes = <<>> /\ LabelPrints # {})
    /\ (SinkOver /\ pc = "aborted") => LabelFiles = {}

\* a ZIP payload saved under a path in a directory, with --save-to-downloads:
\* the file is in Downloads, under the name with ".zip" appended
C9_Witness ==
    /\ SinkOver
    /\ pc = "done"
    /\ HasZipSignature(label_bytes)
    /\ Len(label_bytes) > 4
    /\ args.save_to_downloads
    /\ args.save_label = JStr(<<"d", "/", "a">>)
    /\ LabelWrittenTo(InDownloads(<<"a", ".", "z", "i", "p">>))
====
